---- MODULE Spec2Model ----
(***************************************************************************)
(* Model of the user-space allocator of src/alloc.c (tumalloc, tucalloc,   *)
(* turealloc, tufree) over a flat, word-addressed heap.                    *)
(*                                                                         *)
(* Memory is an array of 8-byte words indexed by byte address.  A block    *)
(* header is two words: the size at offset 0 and, at offset 8, the word    *)
(* that holds `magic' while the block is allocated and `next' while it is  *)
(* free (the two layouts of alloc.h share the bytes).  All modelled        *)
(* addresses are below 2^32, so the upper half of that word is always 0:   *)
(* stamping the magic over a pointer leaves the word equal to MAGIC, and   *)
(* reading the magic of a word that holds a pointer yields the pointer.    *)
(***************************************************************************)
EXTENDS Integers, Sequences, FiniteSets, TLC

\* ---------------------------------------------------------------- bounds
HeapBase == 16          \* initial program break (first byte of the heap)
HeapSize == 96          \* bytes the OS grants before sbrk reports failure
HistLen == 3            \* how many past calls the caller-side history keeps
MaxCalls == 6           \* how many calls the caller makes in one run
MaxLong == 8            \* how many calls a caller holding few blocks makes
MaxLive == 1            \* how many blocks that caller holds at a time
MaxDeep == 10           \* how many calls a caller with small sizes makes
MaxOdd == 6             \* how many calls a caller with odd sizes makes

\* ------------------------------------------------------ program constants
ALIGNMENT == 16
HDR == 16               \* sizeof(header) = sizeof(free_block)
MAGIC == 19088743       \* 0x01234567
NULL == 0
PATTERN == 10855845     \* 0x00A5A5A5, the caller's known data pattern

HeapLimit == HeapBase + HeapSize
Sizes == {0, 16, 32}
OddSizes == {8, 24, 40}
SmallSizes == {0, 16}
HeapWords == {a \in HeapBase..(HeapLimit - 1) : a % 8 = 0}

VARIABLES mem, HEAD, last_allocated, brk, status, live, hist, ncalls
vars == <<mem, HEAD, last_allocated, brk, status, live, hist, ncalls>>

\* ------------------------------------------------------------ raw memory
\* F applied to the value of v (v is evaluated once, before F).
Bind(v, F(_)) == CHOOSE r \in {F(x) : x \in {v}} : TRUE

\* A word can be accessed when it lies inside the heap obtained so far.
Valid(st, a) == a \in HeapWords /\ a < st.brk

Crash(st) == [st EXCEPT !.status = "ub"]
Hang(st) == [st EXCEPT !.status = "hang"]

Store(st, a, v) ==
    IF st.status # "run" THEN st
    ELSE IF Valid(st, a) THEN [st EXCEPT !.mem[a] = v]
    ELSE Crash(st)

\* Result of a read-only scan: how it ended and the pointer it found.
Found(v) == [status |-> "run", v |-> v]
Stuck(s) == [status |-> s, v |-> NULL]

\* ---------------------------------------------------------------- split
split(st, block, size) ==
    IF st.status # "run" THEN [st |-> st, v |-> NULL]
    ELSE IF ~Valid(st, block) THEN [st |-> Crash(st), v |-> NULL]
    ELSE IF st.mem[block] < size + HDR THEN [st |-> st, v |-> NULL]
    ELSE IF ~Valid(st, block + 8) THEN [st |-> Crash(st), v |-> NULL]
    ELSE Bind(block + size + HDR, LAMBDA new_block :
         Bind(Store(st, new_block, st.mem[block] - size - HDR), LAMBDA s1 :
         Bind(Store(s1, new_block + 8, s1.mem[block + 8]), LAMBDA s2 :
         Bind(Store(s2, block, size), LAMBDA s3 :
         [st |-> s3, v |-> IF s3.status = "run" THEN block ELSE NULL]))))

\* ------------------------------------------------- find_prev / find_next
RECURSIVE find_prev_loop(_, _, _, _)
find_prev_loop(st, block, curr, seen) ==
    IF curr = NULL THEN Found(NULL)
    ELSE IF ~Valid(st, curr) THEN Stuck("ub")
    ELSE IF curr \in seen THEN Stuck("hang")
    ELSE IF curr + st.mem[curr] + HDR = block THEN Found(curr)
    ELSE IF ~Valid(st, curr + 8) THEN Stuck("ub")
    ELSE Bind(st.mem[curr + 8], LAMBDA nxt :
         Bind(seen \cup {curr}, LAMBDA seen2 :
         find_prev_loop(st, block, nxt, seen2)))

find_prev(st, block) == find_prev_loop(st, block, st.HEAD, {})

RECURSIVE find_next_loop(_, _, _, _)
find_next_loop(st, block_end, curr, seen) ==
    IF curr = NULL THEN Found(NULL)
    ELSE IF curr = block_end THEN Found(curr)
    ELSE IF ~Valid(st, curr + 8) THEN Stuck("ub")
    ELSE IF curr \in seen THEN Stuck("hang")
    ELSE Bind(st.mem[curr + 8], LAMBDA nxt :
         Bind(seen \cup {curr}, LAMBDA seen2 :
         find_next_loop(st, block_end, nxt, seen2)))

find_next(st, block) ==
    IF ~Valid(st, block) THEN Stuck("ub")
    ELSE Bind(block + st.mem[block] + HDR, LAMBDA block_end :
         find_next_loop(st, block_end, st.HEAD, {}))

\* ----------------------------------------------------- remove_free_block
RECURSIVE remove_loop(_, _, _, _)
remove_loop(st, block, curr, seen) ==
    IF curr = NULL THEN st
    ELSE IF ~Valid(st, curr + 8) THEN Crash(st)
    ELSE IF curr \in seen THEN Hang(st)
    ELSE IF st.mem[curr + 8] = block
         THEN IF Valid(st, block + 8)
              THEN Store(st, curr + 8, st.mem[block + 8])
              ELSE Crash(st)
    ELSE Bind(st.mem[curr + 8], LAMBDA nxt :
         Bind(seen \cup {curr}, LAMBDA seen2 :
         remove_loop(st, block, nxt, seen2)))

remove_free_block(st, block) ==
    IF st.status # "run" THEN st
    ELSE IF st.HEAD = block
         THEN IF Valid(st, block + 8)
              THEN [st EXCEPT !.HEAD = st.mem[block + 8]]
              ELSE Crash(st)
    ELSE remove_loop(st, block, st.HEAD, {})

\* -------------------------------------------------------------- coalesce
\* `if (prev != NULL) { ... }': returns the state and the block to go on with.
coalesce_prev(st, block, prev) ==
    IF prev = NULL \/ prev + st.mem[prev] + HDR # block
    THEN [st |-> st, v |-> block]
    ELSE Bind(Store(st, prev, st.mem[prev] + st.mem[block] + HDR), LAMBDA s1 :
         IF ~Valid(s1, prev + 8) THEN [st |-> Crash(s1), v |-> prev]
         ELSE IF s1.mem[prev + 8] = block
              THEN [st |-> Store(s1, prev + 8, s1.mem[block + 8]), v |-> prev]
         ELSE [st |-> s1, v |-> prev])

\* `if (next != NULL) { ... }'.
coalesce_next(st, block, next) ==
    IF st.status # "run" \/ next = NULL THEN st
    ELSE IF block + st.mem[block] + HDR # next THEN st
    ELSE IF ~Valid(st, next) \/ ~Valid(st, next + 8) THEN Crash(st)
    ELSE Bind(Store(st, block, st.mem[block] + st.mem[next] + HDR), LAMBDA s1 :
         Store(s1, block + 8, s1.mem[next + 8]))

coalesce(st, block) ==
    IF st.status # "run" \/ block = NULL THEN st
    ELSE Bind(find_prev(st, block), LAMBDA prev :
         IF prev.status # "run" THEN [st EXCEPT !.status = prev.status]
         ELSE Bind(find_next(st, block), LAMBDA next :
              IF next.status # "run" THEN [st EXCEPT !.status = next.status]
              ELSE Bind(coalesce_prev(st, block, prev.v), LAMBDA m :
                   coalesce_next(m.st, m.v, next.v))))

\* -------------------------------------------------------------- do_alloc
do_alloc(st, size) ==
    IF st.status # "run" THEN st
    ELSE Bind(st.brk % ALIGNMENT, LAMBDA addr :
         Bind(IF addr # 0 THEN ALIGNMENT - addr ELSE 0, LAMBDA adjustment :
         Bind(st.brk + adjustment, LAMBDA headstart :
         IF st.brk + size + HDR + adjustment > HeapLimit
         THEN [st EXCEPT !.ret = NULL, !.oom = TRUE]
         ELSE Bind([st EXCEPT !.brk = st.brk + size + HDR + adjustment,
                              !.ext = TRUE], LAMBDA s0 :
              Bind(Store(s0, headstart + 8, MAGIC), LAMBDA s1 :
              Bind(Store(s1, headstart, size), LAMBDA s2 :
              [s2 EXCEPT !.ret = headstart + HDR]))))))

\* ------------------------------------------------------------- tunextfit
\* `if (split_blk) { unused->next = HEAD; HEAD = unused; }'.
tunextfit_unused(st, split_blk) ==
    IF st.status # "run" \/ split_blk = NULL THEN st
    ELSE Bind(Store(st, split_blk + 8, st.HEAD), LAMBDA s1 :
         IF s1.status # "run" THEN s1 ELSE [s1 EXCEPT !.HEAD = split_blk])

\* `last_allocated = block->next ? block->next : HEAD;'.
tunextfit_cursor(st, block) ==
    IF st.status # "run" THEN st
    ELSE IF ~Valid(st, block + 8) THEN Crash(st)
    ELSE [st EXCEPT !.last_allocated =
             IF st.mem[block + 8] # NULL THEN st.mem[block + 8] ELSE st.HEAD]

\* The body of the `if (block->size >= true_size)' branch.
tunextfit_hit(st, block, true_size) ==
    Bind(remove_free_block(st, block), LAMBDA s1 :
    Bind(split(s1, block, true_size), LAMBDA sp :
    Bind(tunextfit_unused(sp.st, sp.v), LAMBDA s3 :
    Bind(tunextfit_cursor(s3, block), LAMBDA s4 :
    Bind(Store(s4, block, true_size - HDR), LAMBDA s5 :
    Bind(Store(s5, block + 8, MAGIC), LAMBDA s6 :
    IF s6.status = "run" THEN [s6 EXCEPT !.ret = block + HDR] ELSE s6))))))

RECURSIVE tunextfit_loop(_, _, _, _, _)
tunextfit_loop(st, true_size, block, start, seen) ==
    IF ~Valid(st, block) THEN Crash(st)
    ELSE IF st.mem[block] >= true_size THEN tunextfit_hit(st, block, true_size)
    ELSE IF ~Valid(st, block + 8) THEN Crash(st)
    ELSE Bind(IF st.mem[block + 8] = NULL THEN st.HEAD ELSE st.mem[block + 8],
              LAMBDA nxt :
         IF nxt = start THEN [st EXCEPT !.ret = NULL]
         ELSE IF nxt \in seen \cup {block} THEN Hang(st)
         ELSE Bind(seen \cup {block}, LAMBDA seen2 :
              tunextfit_loop(st, true_size, nxt, start, seen2)))

tunextfit(st, true_size) ==
    IF st.status # "run" THEN st
    ELSE IF st.HEAD = NULL THEN [st EXCEPT !.ret = NULL]
    ELSE Bind(IF st.last_allocated # NULL THEN st.last_allocated ELSE st.HEAD,
              LAMBDA block :
         tunextfit_loop(st, true_size, block, block, {}))

\* -------------------------------------------------------------- tumalloc
\* tumalloc as it would be if a miss of the free list were reported as a
\* failure instead of falling back to do_alloc.
tumalloc_nogrow(st, size) ==
    IF st.status # "run" THEN st
    ELSE IF st.HEAD = NULL THEN do_alloc(st, size)
    ELSE tunextfit(st, size + HDR)

tumalloc(st, size) ==
    IF st.status # "run" THEN st
    ELSE IF st.HEAD = NULL THEN do_alloc(st, size)
    ELSE Bind(tunextfit(st, size + HDR), LAMBDA s1 :
         IF s1.status # "run" THEN s1
         ELSE IF s1.ret # NULL THEN s1
         ELSE do_alloc(s1, size))

\* ---------------------------------------------------------------- tufree
\* The `else' branch of tufree after the double-free test.
tufree_push(st, hdr) ==
    Bind(Store(st, hdr, st.mem[hdr]), LAMBDA s1 :
    Bind(Store(s1, hdr + 8, s1.HEAD), LAMBDA s2 :
    Bind([s2 EXCEPT !.HEAD = hdr], LAMBDA s3 :
    coalesce(s3, hdr))))

\* tufree as it would be without the validation of the magic sentinel.
tufree_unchecked(st, ptr) ==
    IF st.status # "run" \/ ptr = NULL THEN st
    ELSE IF ~Valid(st, ptr - HDR) \/ ~Valid(st, ptr - HDR + 8) THEN Crash(st)
    ELSE IF st.mem[ptr - HDR + 8] = NULL /\ st.HEAD = ptr - HDR
         THEN [st EXCEPT !.status = "abort"]
    ELSE tufree_push(st, ptr - HDR)

tufree(st, ptr) ==
    IF st.status # "run" \/ ptr = NULL THEN st
    ELSE IF ~Valid(st, ptr - HDR) \/ ~Valid(st, ptr - HDR + 8) THEN Crash(st)
    ELSE IF st.mem[ptr - HDR + 8] # MAGIC
         THEN [st EXCEPT !.status = "abort"]
    ELSE IF st.mem[ptr - HDR + 8] = NULL /\ st.HEAD = ptr - HDR
         THEN [st EXCEPT !.status = "abort"]
    ELSE tufree_push(st, ptr - HDR)

\* ------------------------------------------------------ memcpy / memset
Words(n) == (n + 7) \div 8
Range(a, n) == {a + 8 * i : i \in 0..(Words(n) - 1)}

memcpy(st, dst, src, n) ==
    IF st.status # "run" \/ n = 0 THEN st
    ELSE IF \E a \in Range(dst, n) \cup Range(src, n) : ~Valid(st, a)
         THEN Crash(st)
    ELSE IF Range(dst, n) \cap Range(src, n) # {} THEN Crash(st)
    ELSE [st EXCEPT !.mem = [a \in HeapWords |->
                                IF a \in Range(dst, n)
                                THEN st.mem[a - dst + src] ELSE st.mem[a]]]

memset(st, dst, c, n) ==
    IF st.status # "run" \/ n = 0 THEN st
    ELSE IF \E a \in Range(dst, n) : ~Valid(st, a) THEN Crash(st)
    ELSE [st EXCEPT !.mem = [a \in HeapWords |->
                                IF a \in Range(dst, n) THEN c ELSE st.mem[a]]]

\* ------------------------------------------------------------- turealloc
\* The `else' branch of turealloc: copy, release the old block.
turealloc_move(st, ptr, new_size, new_block) ==
    Bind(IF st.mem[ptr - HDR] < new_size THEN st.mem[ptr - HDR] ELSE new_size,
         LAMBDA copy_size :
    Bind(memcpy(st, new_block, ptr, copy_size), LAMBDA s2 :
    tufree(s2, ptr)))

turealloc(st, ptr, new_size) ==
    IF st.status # "run" THEN st
    ELSE IF ptr = NULL THEN tumalloc(st, new_size)
    ELSE Bind(tumalloc(st, new_size), LAMBDA s1 :
         IF s1.status # "run" THEN s1
         ELSE IF s1.ret = NULL THEN s1
         ELSE IF ~Valid(s1, ptr - HDR) \/ ~Valid(s1, ptr - HDR + 8) THEN Crash(s1)
         ELSE IF s1.mem[ptr - HDR + 8] # MAGIC
              THEN [s1 EXCEPT !.status = "abort"]
         ELSE turealloc_move(s1, ptr, new_size, s1.ret))

\* -------------------------------------------------- size_t multiplication
\* A size_t is eight bytes, least significant first; num * size is the
\* product modulo 2^64.
SIZE_BYTES == 8

Word64(n) == [i \in 1..SIZE_BYTES |->
                 CASE i = 1 -> n % 256
                   [] i = 2 -> (n \div 256) % 256
                   [] i = 3 -> (n \div 65536) % 256
                   [] i = 4 -> (n \div 16777216) % 256
                   [] OTHER -> 0]

RECURSIVE Column(_, _, _, _)
Column(a, b, k, i) ==
    IF i > k THEN 0
    ELSE (IF i <= SIZE_BYTES /\ k + 1 - i <= SIZE_BYTES
          THEN a[i] * b[k + 1 - i] ELSE 0) + Column(a, b, k, i + 1)

RECURSIVE MulFrom(_, _, _, _, _)
MulFrom(a, b, k, carry, width) ==
    IF k > width THEN <<>>
    ELSE Bind(Column(a, b, k, 1) + carry, LAMBDA t :
         <<t % 256>> \o MulFrom(a, b, k + 1, t \div 256, width))

mul64(a, b) == MulFrom(a, b, 1, 0, SIZE_BYTES)

\* The mathematical product does not fit in a size_t.
Overflows(a, b) ==
    \E wide \in {MulFrom(a, b, 1, 0, 2 * SIZE_BYTES)} :
        \E k \in (SIZE_BYTES + 1)..(2 * SIZE_BYTES) : wide[k] # 0

\* The value of a size_t below 2^31 (every total the model requests is).
Small(w) == w[4] < 128 /\ \A i \in 5..SIZE_BYTES : w[i] = 0
AsInt(w) == w[1] + 256 * w[2] + 65536 * w[3] + 16777216 * w[4]

\* -------------------------------------------------------------- tucalloc
tucalloc(st, num, size) ==
    Bind(AsInt(mul64(num, size)), LAMBDA total_size :
    Bind(tumalloc(st, total_size), LAMBDA s1 :
    IF s1.status # "run" THEN s1
    ELSE IF s1.ret # NULL THEN memset(s1, s1.ret, 0, total_size)
    ELSE s1))

\* ------------------------------------------------------------ the caller
\* Big counts whose product with the element size wraps around 2^64.
TwoTo61Plus2 == [i \in 1..SIZE_BYTES |-> IF i = 8 THEN 32 ELSE IF i = 1 THEN 2 ELSE 0]
CallocArgs == { <<Word64(1), Word64(8)>>, <<TwoTo61Plus2, Word64(8)>> }

\* The allocator state at the start of a call.
Cur == [mem |-> mem, HEAD |-> HEAD, last_allocated |-> last_allocated,
        brk |-> brk, status |-> status, ret |-> NULL,
        ext |-> FALSE, oom |-> FALSE]

Call(op, ptr, size, st, wrap) ==
    [op |-> op, ptr |-> ptr, size |-> size,
     ret |-> IF st.status = "run" THEN st.ret ELSE NULL,
     ext |-> st.ext, oom |-> st.oom, empty |-> (HEAD = NULL), wrap |-> wrap]

\* The size the header below payload p records (0 for the null pointer).
SizeAt(p) == IF p = NULL THEN 0 ELSE mem[p - HDR]

Push(h, c) == IF Len(h) < HistLen THEN Append(h, c) ELSE Append(Tail(h), c)

Add(l, p, n) == [x \in DOMAIN l \cup {p} |-> IF x = p THEN n ELSE l[x]]
Remove(l, p) == [x \in DOMAIN l \ {p} |-> l[x]]

\* What the process does once behaviour is undefined is not determined.
Outcomes(st) == IF st.status = "ub" THEN {"segv", "wild"} ELSE {st.status}

Finish(st, newlive, call) ==
    /\ mem' = st.mem
    /\ HEAD' = st.HEAD
    /\ last_allocated' = st.last_allocated
    /\ brk' = st.brk
    /\ \E o \in Outcomes(st) : status' = o
    /\ live' = IF st.status = "run" THEN newlive ELSE live
    /\ hist' = Push(hist, call)
    /\ ncalls' = ncalls + 1

Init ==
    /\ mem = [a \in HeapWords |-> 0]
    /\ HEAD = NULL
    /\ last_allocated = NULL
    /\ brk = HeapBase
    /\ status = "run"
    /\ live = [x \in {} |-> 0]
    /\ hist = <<>>
    /\ ncalls = 0

\* One call of each public operation by the caller.
MallocCall(n) ==
    \E st \in {tumalloc(Cur, n)} :
        Finish(st, IF st.ret # NULL THEN Add(live, st.ret, n) ELSE live,
               Call("malloc", NULL, n, st, FALSE))

ReallocCall(p, n) ==
    \E st \in {turealloc(Cur, p, n)} :
        Finish(st, IF st.ret # NULL THEN Add(Remove(live, p), st.ret, n)
                   ELSE live,
               Call("realloc", p, n, st, FALSE))

FreeCall(p) ==
    \E st \in {tufree(Cur, p)} :
        Finish(st, Remove(live, p), Call("free", p, SizeAt(p), st, FALSE))

Malloc ==
    /\ status = "run" /\ ncalls < MaxCalls
    /\ \E n \in Sizes : MallocCall(n)

Calloc ==
    /\ status = "run" /\ ncalls < MaxCalls
    /\ \E args \in CallocArgs :
          /\ Small(mul64(args[1], args[2]))
          /\ \E n \in {AsInt(mul64(args[1], args[2]))},
                st \in {tucalloc(Cur, args[1], args[2])} :
                  Finish(st, IF st.ret # NULL THEN Add(live, st.ret, n) ELSE live,
                         Call("calloc", NULL, n, st, Overflows(args[1], args[2])))

Realloc ==
    /\ status = "run" /\ ncalls < MaxCalls
    /\ \E p \in DOMAIN live \cup {NULL}, n \in Sizes :
          /\ p = NULL => n = 16
          /\ ReallocCall(p, n)

Free ==
    /\ status = "run" /\ ncalls < MaxCalls
    /\ \E p \in DOMAIN live \cup {NULL} : FreeCall(p)

\* The caller releases again the pointer it released in its previous call.
FreeAgain ==
    /\ status = "run" /\ ncalls < MaxCalls
    /\ hist # <<>>
    /\ hist[Len(hist)].op = "free"
    /\ hist[Len(hist)].ptr # NULL
    /\ FreeCall(hist[Len(hist)].ptr)

\* The pointer the caller obtained in its previous call, if any.
Fresh ==
    IF hist = <<>> THEN {}
    ELSE IF hist[Len(hist)].op \in {"malloc", "calloc", "realloc"}
            /\ hist[Len(hist)].ret \in DOMAIN live
         THEN {hist[Len(hist)].ret}
    ELSE {}

\* The caller writes its pattern over the whole payload it just obtained.
Fill ==
    /\ status = "run" /\ ncalls < MaxCalls
    /\ \E p \in Fresh :
          /\ live[p] > 0
          /\ \E a \in Range(p, live[p]) : mem[a] # PATTERN
          /\ \E st \in {memset(Cur, p, PATTERN, live[p])} :
                 Finish(st, live, Call("fill", p, live[p], st, FALSE))

\* The caller writes just below its payload, over the magic of the header.
Scribble ==
    /\ status = "run" /\ ncalls < MaxCalls
    /\ \E p \in Fresh :
          /\ mem[p - 8] = MAGIC
          /\ \E st \in {Store(Cur, p - 8, PATTERN)} :
                 Finish(st, live, Call("scribble", p, 0, st, FALSE))

\* Allocate and release, with the caller errors release has to detect.
Next == Malloc \/ Free \/ FreeAgain \/ Scribble

Spec == Init /\ [][Next]_vars

\* Allocate and release with valid arguments only.
NextPlain == Malloc \/ Free

SpecPlain == Init /\ [][NextPlain]_vars

\* Allocate, release and resize of blocks that hold caller data.
NextResize == Malloc \/ Free \/ Realloc \/ Fill

SpecResize == Init /\ [][NextResize]_vars

\* Longer runs of a caller that holds few blocks at a time.
LongMalloc ==
    /\ status = "run" /\ ncalls < MaxLong
    /\ Cardinality(DOMAIN live) < MaxLive
    /\ \E n \in Sizes : MallocCall(n)

LongRealloc ==
    /\ status = "run" /\ ncalls < MaxLong
    /\ \E p \in DOMAIN live, n \in Sizes : ReallocCall(p, n)

LongFree ==
    /\ status = "run" /\ ncalls < MaxLong
    /\ \E p \in DOMAIN live : FreeCall(p)

NextLong == LongMalloc \/ LongRealloc \/ LongFree

SpecLong == Init /\ [][NextLong]_vars

\* Deep runs of allocate and release with the two smallest request sizes.
DeepMalloc ==
    /\ status = "run" /\ ncalls < MaxDeep
    /\ \E n \in SmallSizes : MallocCall(n)

DeepFree ==
    /\ status = "run" /\ ncalls < MaxDeep
    /\ \E p \in DOMAIN live : FreeCall(p)

NextDeep == DeepMalloc \/ DeepFree

SpecDeep == Init /\ [][NextDeep]_vars

\* Runs of a caller whose request sizes are not multiples of the alignment.
OddMalloc ==
    /\ status = "run" /\ ncalls < MaxOdd
    /\ \E n \in OddSizes : MallocCall(n)

OddRealloc ==
    /\ status = "run" /\ ncalls < MaxOdd
    /\ \E p \in DOMAIN live, n \in OddSizes : ReallocCall(p, n)

OddFree ==
    /\ status = "run" /\ ncalls < MaxOdd
    /\ \E p \in DOMAIN live : FreeCall(p)

NextOdd == OddMalloc \/ OddRealloc \/ OddFree

SpecOdd == Init /\ [][NextOdd]_vars

\* Allocate, zeroed allocate and release.
NextCalloc == Malloc \/ Calloc \/ Free

SpecCalloc == Init /\ [][NextCalloc]_vars

TypeOK ==
    /\ status \in {"run", "abort", "segv", "wild", "hang"}
    /\ brk \in HeapBase..HeapLimit
    /\ Len(hist) <= HistLen

\* ------------------------------------------------------- derived notions
Last == hist[Len(hist)]

\* The step just taken was a call of the caller (not a stuttering step).
Called(op) == ncalls' = ncalls + 1 /\ Last'.op = op

\* The headers reachable from head h by following next in memory m.
RECURSIVE Walk(_, _, _, _)
Walk(m, b, curr, seen) ==
    IF curr = NULL \/ curr \in seen THEN seen
    ELSE IF ~(curr \in HeapWords /\ curr + 8 < b) THEN seen
    ELSE Walk(m, b, m[curr + 8], seen \cup {curr})

FreeNodes(m, h, b) == Walk(m, b, h, {})

\* Every non-null address the walk from head h arrives at, the first one
\* that cannot be read included.
RECURSIVE Chain(_, _, _, _)
Chain(m, b, curr, seen) ==
    IF curr = NULL \/ curr \in seen THEN seen
    ELSE IF ~(curr \in HeapWords /\ curr + 8 < b) THEN seen \cup {curr}
    ELSE Chain(m, b, m[curr + 8], seen \cup {curr})

\* ------------------------------------------------------------------ C1
\* C1: with the free list empty, p = allocate(n); release(p); allocate(n)
\* serves the second allocate from the free list: it makes no
\* heap-extension call and leaves the break where it was.
C1_RoundTripReuse ==
    (/\ Len(hist) = 3
     /\ status = "run"
     /\ hist[1].op = "malloc" /\ hist[1].empty /\ hist[1].ret # NULL
     /\ hist[2].op = "free" /\ hist[2].ptr = hist[1].ret
     /\ hist[3].op = "malloc" /\ hist[3].size = hist[1].size)
    => (~hist[3].ext /\ ~hist[3].oom /\ hist[3].ret # NULL)

\* ------------------------------------------------------------------ C2
\* C2: when allocate(R) is served from a free block of size S with
\* S - R - HDR >= HDR, the returned block is no longer in the free list and
\* the list holds a block right after the returned payload whose size is
\* S - R - HDR.
C2_SplitCorrect ==
    [][ (/\ Called("malloc")
         /\ status' = "run"
         /\ Last'.ret # NULL
         /\ ~Last'.ext
         /\ (Last'.ret - HDR) \in FreeNodes(mem, HEAD, brk)
         /\ mem[Last'.ret - HDR] - Last'.size - HDR >= HDR)
        => LET block == Last'.ret - HDR
               tail == Last'.ret + Last'.size
               nodes == FreeNodes(mem', HEAD', brk')
           IN  /\ block \notin nodes
               /\ tail \in nodes
               /\ mem'[tail] = mem[block] - Last'.size - HDR ]_vars

\* ------------------------------------------------------------------ C3
\* C3: releasing two physically adjacent allocated blocks into an empty
\* free list, in either order, leaves exactly one free node: it starts at
\* the lower header and its size is the two sizes plus one header.
C3_CoalesceAdjacent ==
    (/\ Len(hist) >= 2
     /\ status = "run"
     /\ Last.op = "free" /\ Last.ptr # NULL
     /\ hist[Len(hist) - 1].op = "free" /\ hist[Len(hist) - 1].ptr # NULL
     /\ hist[Len(hist) - 1].empty
     /\ LET a == hist[Len(hist) - 1]
            b == Last
        IN  \/ a.ptr + a.size + HDR = b.ptr
            \/ b.ptr + b.size + HDR = a.ptr)
    => LET a == hist[Len(hist) - 1]
           b == Last
           lo == IF a.ptr < b.ptr THEN a.ptr - HDR ELSE b.ptr - HDR
       IN  /\ FreeNodes(mem, HEAD, brk) = {lo}
           /\ HEAD = lo
           /\ mem[lo] = a.size + HDR + b.size

\* ------------------------------------------------------------------ C4
\* C4: release of a non-null pointer whose header magic is not the sentinel
\* ends in the fatal state and leaves the free-list head, the memory and
\* the next-fit cursor as they were.
C4_CorruptionDetected ==
    [][ (/\ Called("free")
         /\ Last'.ptr # NULL
         /\ mem[Last'.ptr - 8] # MAGIC)
        => (status' = "abort" /\ UNCHANGED <<mem, HEAD, last_allocated, brk>>) ]_vars

\* A release was refused because the caller had overwritten the magic.
C4_Witness ==
    /\ Len(hist) >= 2
    /\ status = "abort"
    /\ Last.op = "free"
    /\ hist[Len(hist) - 1].op = "scribble"
    /\ hist[Len(hist) - 1].ptr = Last.ptr
    /\ mem[Last.ptr - 8] = PATTERN

\* ------------------------------------------------------------------ C5
\* C5: releasing the same pointer twice with no call in between ends in the
\* fatal state on the second release, which does not push the block again.
C5_DoubleRelease ==
    [][ (/\ Called("free")
         /\ hist # <<>>
         /\ Last'.ptr # NULL
         /\ Last.op = "free"
         /\ Last.ptr = Last'.ptr)
        => (status' = "abort" /\ UNCHANGED <<mem, HEAD, last_allocated, brk>>) ]_vars

\* A second release was refused with other blocks already in the free list.
C5_Witness ==
    /\ Len(hist) >= 3
    /\ status = "abort"
    /\ Last.op = "free" /\ Last.ptr # NULL
    /\ hist[Len(hist) - 1].op = "free"
    /\ hist[Len(hist) - 1].ptr = Last.ptr
    /\ ~hist[Len(hist) - 1].empty
    /\ mem[Last.ptr - 8] # NULL

\* -------------------------------------------------------- resize claims
\* The step just taken was resize(p, n) of a live pointer p whose header
\* carries the sentinel and the size the caller asked for.
Resized ==
    /\ Called("realloc")
    /\ Last'.ptr \in DOMAIN live
    /\ mem[Last'.ptr - 8] = MAGIC
    /\ mem[Last'.ptr - HDR] = live[Last'.ptr]

\* ------------------------------------------------------------------ C6
\* C6: resize(p, new_size) with 0 < new_size <= old size returns p, makes no
\* heap-extension call and leaves the free list and the header unchanged.
C6_ShrinkIsNoOp ==
    [][ (/\ Resized
         /\ Last'.size > 0
         /\ Last'.size <= mem[Last'.ptr - HDR])
        => (/\ status' = "run"
            /\ Last'.ret = Last'.ptr
            /\ ~Last'.ext /\ ~Last'.oom
            /\ UNCHANGED <<mem, HEAD, brk>>) ]_vars

\* ------------------------------------------------------------------ C7
\* C7: resize(p, 0) returns null and changes the allocator state exactly as
\* release(p) does; it allocates nothing.
C7_ResizeZeroReleases ==
    [][ (Resized /\ Last'.size = 0)
        => (/\ Last'.ret = NULL
            /\ ~Last'.ext /\ ~Last'.oom
            /\ mem' = tufree(Cur, Last'.ptr).mem
            /\ HEAD' = tufree(Cur, Last'.ptr).HEAD
            /\ brk' = brk) ]_vars

\* ------------------------------------------------------------------ C8
\* C8: when resize(p, new_size) with new_size above the old size finds no
\* fit and the heap extension fails, it returns null, the old block keeps
\* its magic and size and is not in the free list, and nothing changes.
C8_ResizeFailureAtomic ==
    [][ (/\ Resized
         /\ Last'.size > mem[Last'.ptr - HDR]
         /\ Last'.oom)
        => (/\ status' = "run"
            /\ Last'.ret = NULL
            /\ UNCHANGED <<mem, HEAD, last_allocated, brk, live>>
            /\ (Last'.ptr - HDR) \notin FreeNodes(mem', HEAD', brk')) ]_vars

\* ------------------------------------------------------------------ C9
\* C9: a successful resize(p, new_size) with new_size above the old size
\* returns a pointer whose first old-size bytes are those p held, and the
\* old block is then covered by a node of the free list.
C9_GrowthPreservesData ==
    [][ (/\ Resized
         /\ Last'.size > mem[Last'.ptr - HDR]
         /\ status' = "run"
         /\ Last'.ret # NULL)
        => (/\ \A a \in Range(Last'.ptr, mem[Last'.ptr - HDR]) :
                  mem'[a - Last'.ptr + Last'.ret] = mem[a]
            /\ \E x \in FreeNodes(mem', HEAD', brk') :
                  /\ x <= Last'.ptr - HDR
                  /\ Last'.ptr + mem[Last'.ptr - HDR] <= x + HDR + mem'[x]) ]_vars

\* ----------------------------------------------------------------- C10
\* C10: when count * elem_size does not fit in a size_t, allocate_zeroed
\* returns null and allocates nothing: no heap extension, free list as before.
C10_CallocOverflowFails ==
    [][ (Called("calloc") /\ Last'.wrap)
        => (/\ Last'.ret = NULL
            /\ ~Last'.ext /\ ~Last'.oom
            /\ UNCHANGED <<mem, HEAD, brk>>) ]_vars

\* ----------------------------------------------------------------- C11
\* C11: allocate returns null only when the heap extension failed during
\* the call, and then the free-list head, the memory (so every node's size
\* and next), the next-fit cursor and the break are as before the call.
C11_AllocateFailure ==
    [][ (/\ Called("malloc")
         /\ status' = "run"
         /\ Last'.ret = NULL)
        => (/\ Last'.oom
            /\ ~Last'.ext
            /\ UNCHANGED <<mem, HEAD, last_allocated, brk, live>>) ]_vars

\* An allocate missed a non-empty free list, the heap extension failed and
\* null was returned.
C11_Witness ==
    /\ hist # <<>>
    /\ status = "run"
    /\ Last.op = "malloc"
    /\ Last.ret = NULL
    /\ Last.oom
    /\ ~Last.empty
    /\ HEAD # NULL

\* ----------------------------------------------------------------- C12
\* C12: every non-null pointer allocate or resize has handed out has its
\* header at a multiple of 16, and so does every node on the chain from the
\* free-list head, also for request sizes that are not multiples of 16.
C12_Aligned ==
    status = "run"
    => (/\ \A p \in DOMAIN live : (p - HDR) % ALIGNMENT = 0
        /\ \A i \in 1..Len(hist) :
               hist[i].ret # NULL => (hist[i].ret - HDR) % ALIGNMENT = 0
        /\ \A x \in Chain(mem, brk, HEAD, {}) : x % ALIGNMENT = 0)

\* ----------------------------------------------------------------- C13
\* C13: between operations no block that is handed to the caller is
\* reachable from the free-list head; in particular the block of a pointer
\* allocate has just returned is off the list.
C13_MembershipExact ==
    status = "run"
    => \A p \in DOMAIN live : (p - HDR) \notin FreeNodes(mem, HEAD, brk)

\* ----------------------------------------------------------------- C14
\* C14: after every release that returns, no node reachable from the
\* free-list head ends exactly where another reachable node starts.
C14_NoAdjacentFree ==
    (/\ hist # <<>>
     /\ status = "run"
     /\ Last.op = "free")
    => \A x, y \in FreeNodes(mem, HEAD, brk) :
           x # y => x + HDR + mem[x] # y

\* ----------------------------------------------------------------- C15
\* C15: the next-fit cursor is unset or points to a node reachable from the
\* free-list head, and never to the block of a pointer the caller holds.
C15_CursorValid ==
    status = "run"
    => \/ last_allocated = NULL
       \/ /\ last_allocated \in FreeNodes(mem, HEAD, brk)
          /\ (last_allocated + HDR) \notin DOMAIN live

\* ----------------------------------------------------------------- C16
\* C16: every call with valid arguments terminates, and the free list stays
\* acyclic: following next from the head arrives at null.
Acyclic(m, h, b) ==
    \A x \in FreeNodes(m, h, b) : x \notin Chain(m, b, m[x + 8], {})

C16_Terminates ==
    /\ status # "hang"
    /\ status = "run" => Acyclic(mem, HEAD, brk)

\* ----------------------------------------------------------------- C17
\* C17: allocate(size) with a non-empty free list calls the heap extender
\* only if no node reachable from the head has size >= size + HDR; when
\* such a node exists the request is served from the free list.
C17_NextFitComplete ==
    [][ (/\ Called("malloc")
         /\ status' = "run"
         /\ HEAD # NULL
         /\ (Last'.ext \/ Last'.oom))
        => \A x \in FreeNodes(mem, HEAD, brk) : mem[x] < Last'.size + HDR ]_vars

\* ----------------------------------------------------------------- C18
\* C18: when allocate(R) is served from a free block of size S that fits
\* but is too small to split (S - R - HDR < HDR), the returned block is that
\* node and its header still records S.
C18_WholeBlockKept ==
    [][ (/\ Called("malloc")
         /\ status' = "run"
         /\ Last'.ret # NULL
         /\ ~Last'.ext
         /\ (Last'.ret - HDR) \in FreeNodes(mem, HEAD, brk)
         /\ mem[Last'.ret - HDR] - Last'.size - HDR < HDR)
        => (/\ mem'[Last'.ret - HDR] = mem[Last'.ret - HDR]
            /\ mem'[Last'.ret - HDR] >= Last'.size) ]_vars

\* ----------------------------------------------------------------- C19
\* C19: when release(p) finds a free node N that starts where the freed
\* block ends, then after the call N is not reachable from the head, and
\* every other node that was on the list is still reachable, with its size
\* unchanged unless it is the predecessor that absorbed the freed block.
C19_SuccessorMergeFrame ==
    [][ (/\ Called("free")
         /\ status' = "run"
         /\ Last'.ptr \in DOMAIN live
         /\ mem[Last'.ptr - 8] = MAGIC)
        => LET block == Last'.ptr - HDR
               before == FreeNodes(mem, HEAD, brk)
               after == FreeNodes(mem', HEAD', brk')
           IN  \A N \in before :
                   N = block + HDR + mem[block]
                   => /\ N \notin after
                      /\ \A x \in before \ {N, block} :
                             /\ x \in after
                             /\ x + HDR + mem[x] # block => mem'[x] = mem[x] ]_vars

\* ----------------------------------------------------------------- C20
\* C20: the extents [header, header + HDR + size) of the blocks the caller
\* holds and of the nodes reachable from the free-list head are pairwise
\* disjoint.
Extent(h) == [lo |-> h, hi |-> h + HDR + mem[h]]

Disjoint(e, f) == e.hi <= f.lo \/ f.hi <= e.lo

C20_NoOverlap ==
    status = "run"
    => LET held == {p - HDR : p \in DOMAIN live}
           nodes == FreeNodes(mem, HEAD, brk)
       IN  /\ held \cap nodes = {}
           /\ \A x, y \in held \cup nodes :
                  x # y => Disjoint(Extent(x), Extent(y))

====
